---- MODULE Spec2Model ----
(***************************************************************************)
(* Brute-force login protection of soteros_backend                         *)
(* (src/middleware/accountLockout.js): failed-attempt tracking per         *)
(* (identifier, ip) in a NodeCache tier and the login_attempts table,      *)
(* progressive lockout, dedup window, expiry cleanup.                      *)
(*                                                                         *)
(* Time is in milliseconds, as Date.now().  Every asynchronous call is a   *)
(* task; a task's code between two awaits is one step (the event loop runs *)
(* it without preemption), and every SQL statement is a step of its own,   *)
(* executed by the database at some moment between the statement being     *)
(* issued and the task being resumed.                                      *)
(***************************************************************************)
EXTENDS Integers, Naturals, FiniteSets, Sequences, TLC

\* ------------------------------------------------------------ bounds
MaxTicks == 3       \* clock advances, concurrent and failing-database specifications
MaxSeqTicks == 4    \* clock advances, sequential specification
MaxCount == 6       \* failures counted for one key
MaxDownTicks == 5   \* clock advances, specification without a durable tier
MaxProbe == 8       \* largest count a row holds when the process starts
MaxSlowTicks == 4   \* clock advances, specification with failures minutes apart
MaxKeysTicks == 1   \* clock advances, specification with three keys
MaxCrossTicks == 4  \* clock advances, specification with a call one ms before a lockout ends
MaxStretch == 1     \* ms the clock may advance between two reads of one synchronous stretch
MaxSweeps == 2      \* cleanupExpiredAttempts calls in flight beyond which no caller makes another

\* ------------------------------------------------------------ program constants
MAX_FAILED_ATTEMPTS == 5
FIRST_LOCKOUT_THRESHOLD == 3
FIRST_LOCKOUT_DURATION == 5 * 60 * 1000
FINAL_LOCKOUT_DURATION == 30 * 60 * 1000
LOGIN_TTL == 900
RECENT_TTL == 3
DEDUP_MS == 3000
SWEEP_INTERVAL == 60 * 60 * 1000

NULL == 0 - 1

\* The tasks that run calls.
Procs == {1, 2, 3, 4}
Identifiers == {"ann"}
Ips == {"ip1"}
\* The spellings of an e-mail address a login request may carry.
Spellings == {"ann", "Ann"}

\* ------------------------------------------------------------ pure helpers
\* Mutant: the 5-minute band begins above the threshold instead of at it.
getLockoutDuration_LateFirstBand(attemptCount) ==
  IF attemptCount >= MAX_FAILED_ATTEMPTS THEN FINAL_LOCKOUT_DURATION
  ELSE IF attemptCount > FIRST_LOCKOUT_THRESHOLD THEN FIRST_LOCKOUT_DURATION
  ELSE 0

getLockoutDuration(attemptCount) ==
  IF attemptCount >= MAX_FAILED_ATTEMPTS THEN FINAL_LOCKOUT_DURATION
  ELSE IF attemptCount >= FIRST_LOCKOUT_THRESHOLD THEN FIRST_LOCKOUT_DURATION
  ELSE 0

getAttemptKey(identifier, ip) == "login_attempt_" \o identifier \o "_" \o ip

\* The row of login_attempts a statement's WHERE identifier = ? AND ip_address = ?
\* addresses (unique key unique_identifier_ip).
\* The identifier column has a case-insensitive collation: spellings that differ
\* in letter case only address the same row.
Lower(identifier) == CASE identifier = "Ann" -> "ann" [] OTHER -> identifier
RowKey(identifier, ip) == <<Lower(identifier), ip>>

\* (identifier, ip) pairs that differ in the identifier or in the address; the
\* address of a request is the first x-forwarded-for element as sent.
Callers == {<<"ann", "ip1">>, <<"ann_1", "ip2">>, <<"ann", "1_ip2">>}

CacheKeys ==
  {getAttemptKey(i, a) : i \in Spellings, a \in Ips} \cup {getAttemptKey(c[1], c[2]) : c \in Callers}
RowKeys ==
  {RowKey(i, a) : i \in Spellings, a \in Ips} \cup {RowKey(c[1], c[2]) : c \in Callers}

\* MySQL NOW() stored in a TIMESTAMP column: whole seconds.
SqlNow(t) == (t \div 1000) * 1000

Max0(x) == IF x > 0 THEN x ELSE 0

\* Absent row / absent cache entry / absent dedup marker.
NoRow == [count |-> 0, created |-> NULL, last |-> NULL]
NoEntry == [count |-> 0, firstAttempt |-> NULL, exp |-> NULL]
NoMark == [at |-> NULL, exp |-> NULL]

\* NodeCache.get: an entry whose expiry time is before Date.now() is gone.
LoginCacheGet(e, t) == IF e.count > 0 /\ e.exp >= t THEN e ELSE NoEntry
RecentCacheGet(m, t) == IF m.at # NULL /\ m.exp >= t THEN m.at ELSE NULL

\* loginAttemptsCache.set(key, {count, firstAttempt}, 900)
LoginCacheEntry(c, first, t) == [count |-> c, firstAttempt |-> first, exp |-> t + LOGIN_TTL * 1000]
\* recentAttemptsCache.set(recentKey, now, 3)
RecentCacheEntry(t) == [at |-> t, exp |-> t + RECENT_TTL * 1000]

Decision(l, r, u) == [locked |-> l, remainingAttempts |-> r, lockoutUntil |-> u]
NoDecision == [locked |-> FALSE, remainingAttempts |-> NULL, lockoutUntil |-> NULL]

\* ------------------------------------------------------------ state
VARIABLES
  now,      \* Date.now() / the database clock, ms
  ticks,    \* number of clock advances so far
  db,       \* login_attempts: row key -> row (NoRow: no such row)
  dbUp,     \* whether pool.execute currently succeeds
  cache,    \* loginAttemptsCache: key -> entry
  recent,   \* recentAttemptsCache: key -> dedup marker
  proc,     \* per task: the call it is running and where it is suspended
  ret,      \* what the call that returned last returned (and, for a follow-up call, the
            \* call before it); forgotten when a call begins or time passes
  calls,    \* row key -> recordFailedAttempt calls past the dedup check since the last clear call
  incAt,    \* row key -> when the call began whose upsert ran last (NULL: none since the last clear call)
  sweep,    \* cleanupExpiredAttempts calls in flight: those whose DELETE the database has
            \* not run yet, and those resumed by a DELETE that succeeded or failed
  rest      \* ms of the current clock advance still to pass, the clock standing at an
            \* instant the timer came due

vars == <<now, ticks, db, dbUp, cache, recent, proc, ret, calls, incAt, sweep, rest>>

NoSweep == [pend |-> 0, swept |-> 0, failed |-> 0]
InFlight(sw) == sw.pend + sw.swept + sw.failed

NoSnap == [count |-> 0, firstAttempt |-> NULL]
Snap(e) == [count |-> e.count, firstAttempt |-> e.firstAttempt]

\* What a completed call returned: the call, the branch it returned from, its
\* decision, the row its lockout check read and whether that SELECT threw, the row
\* its upsert read back, and the counts the two tiers hold as it returns.
NoOutcome ==
  [op |-> "none", kind |-> "none", dec |-> NoDecision, row |-> NoRow, dbErr |-> FALSE,
   back |-> NoRow, dbn |-> 0, cn |-> 0]

IdleProc ==
  [op |-> "idle", pc |-> "idle", ident |-> "", ip |-> "", ctx |-> "none",
   t0 |-> NULL, attempts |-> NoSnap, row |-> NoRow, dbErr |-> FALSE, firstAttempt |-> NULL,
   back |-> NoRow,
   clrFrom |-> "none", follow |-> "none", prev |-> NoOutcome]

NoRet == [out |-> NoOutcome, prev |-> NoOutcome]

\* The clock's origin: any positive Date.now().
Epoch == 1000 * 1000

\* The state after the module is loaded: empty caches, no rows; the durable tier
\* answers (up) or not.
InitWith(up) ==
  /\ now = Epoch
  /\ ticks = 0
  /\ db = [k \in RowKeys |-> NoRow]
  /\ dbUp = up
  /\ cache = [k \in CacheKeys |-> NoEntry]
  /\ recent = [k \in CacheKeys |-> NoMark]
  /\ proc = [p \in Procs |-> IdleProc]
  /\ ret = NoRet
  /\ calls = [k \in RowKeys |-> 0]
  /\ incAt = [k \in RowKeys |-> NULL]
  /\ sweep = NoSweep
  /\ rest = 0

Init == InitWith(TRUE)

KeyOf(pr) == getAttemptKey(pr.ident, pr.ip)
RowOf(pr) == RowKey(pr.ident, pr.ip)

OutcomeAt(pr, kind, d, c, t) ==
  [op |-> pr.op, kind |-> kind, dec |-> d, row |-> pr.row, dbErr |-> pr.dbErr,
   back |-> pr.back,
   dbn |-> db[RowOf(pr)].count, cn |-> LoginCacheGet(c[KeyOf(pr)], t).count]
Outcome(pr, kind, d, c) == OutcomeAt(pr, kind, d, c, now)

\* A call begins; t0 is the `now` of line 57.
Called(op, i, a, follow) ==
  [IdleProc EXCEPT !.op = op, !.ident = i, !.ip = a, !.follow = follow, !.t0 = now]

\* checkAccountLockout up to its first await: the cache read of line 201; the
\* SELECT of line 205 is then pending.
BeginCheck(pr, ctx, c, t) ==
  [pr EXCEPT !.pc = "chk_select", !.ctx = ctx,
             !.attempts = Snap(LoginCacheGet(c[KeyOf(pr)], t)),
             !.row = NoRow, !.dbErr = FALSE]

\* clearFailedAttempts up to its await: both caches are cleared, the DELETE is pending.
ClearedLogin(c, pr) == [c EXCEPT ![KeyOf(pr)] = NoEntry]
\* Mutant: clearFailedAttempts leaves the dedup marker in place.
ClearedRecent_Kept(r, pr) == r
ClearedRecent(r, pr) == [r EXCEPT ![KeyOf(pr)] = NoMark]
BeginClear(pr, from) == [pr EXCEPT !.pc = "clr_delete", !.clrFrom = from]

\* A top-level call returns `out` to its caller; a caller that follows it with
\* checkAccountLockout runs that call's first block in the same step.
Returned(pr, out, c, t) ==
  IF pr.follow = "check"
  THEN BeginCheck([IdleProc EXCEPT !.op = "check", !.ident = pr.ident, !.ip = pr.ip,
                                   !.t0 = t, !.prev = out],
                  "top", c, t)
  ELSE IdleProc

RetOf(pr, out) == [out |-> out, prev |-> pr.prev]

\* Mutant: recordFailedAttempt's upsert and read-back run outside any try block.
Caught_NotInRecord == {"chk_select", "clr_delete", "reaper"}

\* The awaited statements that run inside a try block whose catch swallows the
\* error: the SELECT of checkAccountLockout (lines 204-243), the DELETE of
\* clearFailedAttempts (lines 180-185), the upsert and the read-back of
\* recordFailedAttempt (lines 88-130), the DELETE of cleanupExpiredAttempts
\* (lines 292-303).
Caught == {"chk_select", "clr_delete", "rec_upsert", "rec_select", "reaper"}

\* A statement outside every try block throws: the rejection leaves the call
\* (and the call that awaited it) and reaches the caller.
Threw(p) ==
  /\ proc' = [proc EXCEPT ![p] = IdleProc]
  /\ ret' = RetOf(proc[p], Outcome(proc[p], "threw", NoDecision, cache))

\* checkAccountLockout returns decision d to its caller, which runs on in the same
\* step: a top-level caller gets d; recordFailedAttempt's dedup branch (lines 61-66)
\* returns d's fields; its main branch (lines 73-85) returns the locked decision or
\* goes on to the upsert of line 90.  c is the cache after this step's writes,
\* t the clock as the check returns.
AfterCheck(p, d, c, t) ==
  LET pr == proc[p]
      blocked == OutcomeAt(pr, "blocked", Decision(TRUE, 0, d.lockoutUntil), c, t)
      passed == OutcomeAt(pr, IF pr.ctx = "dedup" THEN "dedup" ELSE "check",
                          Decision(d.locked, d.remainingAttempts, d.lockoutUntil), c, t)
  IN
  IF pr.ctx = "main"
  THEN IF d.locked
       THEN /\ proc' = [proc EXCEPT ![p] = Returned(pr, blocked, c, t)]
            /\ ret' = RetOf(pr, blocked)
       ELSE /\ proc' = [proc EXCEPT ![p] = [pr EXCEPT !.pc = "rec_upsert",
                                                      !.firstAttempt = t,
                                                      !.ctx = "none",
                                                      !.attempts = NoSnap]]
            /\ ret' = ret
  ELSE /\ proc' = [proc EXCEPT ![p] = Returned(pr, passed, c, t)]
       /\ ret' = RetOf(pr, passed)

\* ------------------------------------------------------------ calls begin
\* checkAccountLockout(identifier, ip), lines 199-208
StartCheck(p, i, a) ==
  /\ proc[p].pc = "idle"
  /\ proc' = [proc EXCEPT ![p] =
                BeginCheck(Called("check", i, a, "none"), "top", cache, now)]
  /\ ret' = NoRet
  /\ UNCHANGED <<now, ticks, db, dbUp, cache, recent, calls, incAt, sweep, rest>>

\* The dedup test of line 59.
Suppressed(recentAttempt, t) ==
  recentAttempt # NULL /\ recentAttempt # 0 /\ (t - recentAttempt) < DEDUP_MS

\* The failures counted or being counted for the row stay below the model's bound.
Countable(i, a) ==
  LET inFlight == {q \in Procs : proc[q].op = "record" /\ RowOf(proc[q]) = RowKey(i, a)} IN
  /\ db[RowKey(i, a)].count + Cardinality(inFlight) < MaxCount
  /\ cache[getAttemptKey(i, a)].count + Cardinality(inFlight) < MaxCount
  /\ calls[RowKey(i, a)] < MaxCount

\* recordFailedAttempt(identifier, ip), lines 50-73, followed by `follow`
StartRecord(p, i, a, follow) ==
  LET base == Called("record", i, a, follow)
      k == getAttemptKey(i, a)
      recentAttempt == RecentCacheGet(recent[k], now)
  IN
  /\ proc[p].pc = "idle"
  /\ Countable(i, a)
  /\ ret' = NoRet
  /\ IF Suppressed(recentAttempt, now)
     THEN /\ proc' = [proc EXCEPT ![p] = BeginCheck(base, "dedup", cache, now)]
          /\ UNCHANGED <<recent, calls>>
     ELSE /\ recent' = [recent EXCEPT ![k] = RecentCacheEntry(now)]
          /\ proc' = [proc EXCEPT ![p] = BeginCheck(base, "main", cache, now)]
          /\ calls' = [calls EXCEPT ![RowKey(i, a)] = @ + 1]
  /\ UNCHANGED <<now, ticks, db, dbUp, cache, incAt, sweep, rest>>

\* clearFailedAttempts(identifier, ip), lines 172-181, followed by `follow`
StartClear(p, i, a, follow) ==
  LET base == Called("clear", i, a, follow) IN
  /\ proc[p].pc = "idle"
  /\ ret' = NoRet
  /\ cache' = ClearedLogin(cache, base)
  /\ recent' = ClearedRecent(recent, base)
  /\ proc' = [proc EXCEPT ![p] = BeginClear(base, "top")]
  /\ calls' = [calls EXCEPT ![RowKey(i, a)] = 0]
  /\ incAt' = [incAt EXCEPT ![RowKey(i, a)] = NULL]
  /\ UNCHANGED <<now, ticks, db, dbUp, sweep, rest>>

\* ------------------------------------------------------------ checkAccountLockout
\* The database runs the SELECT of lines 205-208 (or the call throws).
ChkSelect(p) ==
  /\ proc[p].pc = "chk_select"
  /\ IF dbUp
     THEN /\ proc' = [proc EXCEPT ![p] =
                        [proc[p] EXCEPT !.pc = "chk_resume", !.row = db[RowOf(proc[p])],
                                        !.dbErr = FALSE]]
          /\ ret' = ret
     ELSE IF "chk_select" \in Caught
     THEN /\ proc' = [proc EXCEPT ![p] =
                        [proc[p] EXCEPT !.pc = "chk_resume", !.row = NoRow, !.dbErr = TRUE]]
          /\ ret' = ret
     ELSE Threw(p)
  /\ UNCHANGED <<now, ticks, db, dbUp, cache, recent, calls, incAt, sweep, rest>>

\* Mutant: the lockout is measured from created_at instead of last_attempt.
LockoutUntilOf_FromCreated(row) ==
  IF getLockoutDuration(row.count) > 0 THEN row.created + getLockoutDuration(row.count) ELSE NULL

\* lockoutUntil of lines 214-215 and 112-113
LockoutUntilOf(row) ==
  IF getLockoutDuration(row.count) > 0 THEN row.last + getLockoutDuration(row.count) ELSE NULL

\* Line 218: the row's lockout has run out.
RowExpired(row, t) ==
  row.count > 0 /\ LockoutUntilOf(row) # NULL /\ t >= LockoutUntilOf(row)

\* Line 235: the row's lockout is running.
RowLocked(row, t) ==
  row.count > 0 /\ LockoutUntilOf(row) # NULL /\ t < LockoutUntilOf(row)

\* Mutant: the cache is never brought up to the row.
SyncedAttempts_Never(attempts, row) == attempts

\* Lines 225-232: the attempts object after the sync with the row.
SyncedAttempts(attempts, row) ==
  IF attempts.count = 0 \/ attempts.count < row.count
  THEN [count |-> row.count, firstAttempt |-> row.created]
  ELSE attempts

\* Lines 259-266, 272-275: the attempts object alone says the lockout has run out.
CacheExpired(attempts, t) ==
  /\ attempts.count >= MAX_FAILED_ATTEMPTS
  /\ getLockoutDuration(attempts.count) > 0
  /\ t >= attempts.firstAttempt + getLockoutDuration(attempts.count)

\* Lines 250-271, 279-284: the decision from the attempts object alone.
CacheDecision(attempts, t) ==
  IF attempts.count = 0 \/ attempts.count < MAX_FAILED_ATTEMPTS
  THEN Decision(FALSE,
                IF attempts.count > 0 THEN MAX_FAILED_ATTEMPTS - attempts.count
                                      ELSE MAX_FAILED_ATTEMPTS,
                NULL)
  ELSE IF getLockoutDuration(attempts.count) > 0
       THEN Decision(TRUE, 0, attempts.firstAttempt + getLockoutDuration(attempts.count))
       ELSE Decision(FALSE, MAX_FAILED_ATTEMPTS - attempts.count, NULL)

\* checkAccountLockout resumed with the SELECT's result, lines 210-285, up to its
\* return or to the await inside clearFailedAttempts.  The stretch reads the clock
\* at line 218 (expiry test), inside the cache write of line 231 and at line 235
\* (locked test, and line 264 after it): the first read is `now`; when the lockout
\* ends within MaxStretch of it, the later reads may already show that instant.
ChkResume(p) ==
  LET pr == proc[p]
      k == KeyOf(pr)
      hasRow == ~pr.dbErr /\ pr.row.count > 0
      until == IF hasRow THEN LockoutUntilOf(pr.row) ELSE NULL
      crosses == until # NULL /\ now < until /\ until <= now + MaxStretch
      expired == hasRow /\ RowExpired(pr.row, now)
      attempts == IF hasRow THEN SyncedAttempts(pr.attempts, pr.row) ELSE pr.attempts
  IN
  /\ pr.pc = "chk_resume"
  /\ \E t3 \in {now} \cup (IF crosses THEN {until} ELSE {}) :
       \E t2 \in {now, t3} :
         LET synced == IF hasRow /\ attempts # pr.attempts
                       THEN [cache EXCEPT ![k] = LoginCacheEntry(attempts.count,
                                                                attempts.firstAttempt, t2)]
                       ELSE cache
         IN
         /\ now' = t3
         /\ IF expired
            THEN /\ cache' = ClearedLogin(cache, pr)
                 /\ recent' = ClearedRecent(recent, pr)
                 /\ proc' = [proc EXCEPT ![p] = BeginClear(pr, "chk")]
                 /\ ret' = NoRet
            ELSE IF hasRow /\ RowLocked(pr.row, t3)
            THEN /\ cache' = synced
                 /\ recent' = recent
                 /\ AfterCheck(p, Decision(TRUE, 0, LockoutUntilOf(pr.row)), synced, t3)
            ELSE IF CacheExpired(attempts, t3)
            THEN /\ cache' = ClearedLogin(synced, pr)
                 /\ recent' = ClearedRecent(recent, pr)
                 /\ proc' = [proc EXCEPT ![p] = BeginClear(pr, "chk")]
                 /\ ret' = NoRet
            ELSE /\ cache' = synced
                 /\ recent' = recent
                 /\ AfterCheck(p, CacheDecision(attempts, t3), synced, t3)
  /\ UNCHANGED <<ticks, db, dbUp, calls, incAt, sweep, rest>>

\* ------------------------------------------------------------ clearFailedAttempts
\* The database runs the DELETE of lines 181-184 (or the call throws and the
\* error is swallowed, lines 185-190).
ClrDelete(p) ==
  /\ proc[p].pc = "clr_delete"
  /\ db' = IF dbUp THEN [db EXCEPT ![RowOf(proc[p])] = NoRow] ELSE db
  /\ IF dbUp \/ "clr_delete" \in Caught
     THEN /\ proc' = [proc EXCEPT ![p].pc = "clr_resume"]
          /\ ret' = ret
     ELSE Threw(p)
  /\ UNCHANGED <<now, ticks, dbUp, cache, recent, calls, incAt, sweep, rest>>

\* clearFailedAttempts returns: to the top-level caller, or into
\* checkAccountLockout, which returns the reset decision (lines 221, 275).
ClrResume(p) ==
  /\ proc[p].pc = "clr_resume"
  /\ IF proc[p].clrFrom = "top"
     THEN /\ proc' = [proc EXCEPT ![p] =
                        Returned(proc[p], Outcome(proc[p], "clear", NoDecision, cache),
                                 cache, now)]
          /\ ret' = RetOf(proc[p], Outcome(proc[p], "clear", NoDecision, cache))
     ELSE AfterCheck(p, Decision(FALSE, MAX_FAILED_ATTEMPTS, NULL), cache, now)
  /\ UNCHANGED <<now, ticks, db, dbUp, cache, recent, calls, incAt, sweep, rest>>

\* ------------------------------------------------------------ recordFailedAttempt

\* Mutant: ON DUPLICATE KEY UPDATE touches last_attempt only, the count is not raised.
Upserted_NoIncrement(row, t) ==
  IF row.count = 0
  THEN [count |-> 1, created |-> SqlNow(t), last |-> SqlNow(t)]
  ELSE [row EXCEPT !.last = SqlNow(t)]

\* Mutant: ON DUPLICATE KEY UPDATE raises the count and leaves last_attempt alone.
Upserted_KeepLast(row, t) ==
  IF row.count = 0
  THEN [count |-> 1, created |-> SqlNow(t), last |-> SqlNow(t)]
  ELSE [row EXCEPT !.count = row.count + 1]

\* INSERT ... ON DUPLICATE KEY UPDATE attempt_count = attempt_count + 1,
\* last_attempt = NOW()   (lines 90-97), one atomic statement.
Upserted(row, t) ==
  IF row.count = 0
  THEN [count |-> 1, created |-> SqlNow(t), last |-> SqlNow(t)]
  ELSE [row EXCEPT !.count = row.count + 1, !.last = SqlNow(t)]

\* The database runs the upsert of line 90 (or the call throws: line 130).
RecUpsert(p) ==
  /\ proc[p].pc = "rec_upsert"
  /\ IF dbUp
     THEN /\ db' = [db EXCEPT ![RowOf(proc[p])] = Upserted(@, now)]
          /\ incAt' = [incAt EXCEPT ![RowOf(proc[p])] = proc[p].t0]
          /\ proc' = [proc EXCEPT ![p].pc = "rec_select"]
          /\ ret' = ret
     ELSE IF "rec_upsert" \in Caught
     THEN /\ proc' = [proc EXCEPT ![p].pc = "rec_catch"]
          /\ ret' = ret
          /\ UNCHANGED <<db, incAt>>
     ELSE /\ Threw(p)
          /\ UNCHANGED <<db, incAt>>
  /\ UNCHANGED <<now, ticks, dbUp, cache, recent, calls, sweep, rest>>

\* The database runs the read-back SELECT of line 100 (or the call throws).
RecSelect(p) ==
  /\ proc[p].pc = "rec_select"
  /\ IF dbUp
     THEN /\ proc' = [proc EXCEPT ![p] =
                        [proc[p] EXCEPT !.pc = "rec_resume", !.back = db[RowOf(proc[p])]]]
          /\ ret' = ret
     ELSE IF "rec_select" \in Caught
     THEN /\ proc' = [proc EXCEPT ![p] = [proc[p] EXCEPT !.pc = "rec_catch"]]
          /\ ret' = ret
     ELSE Threw(p)
  /\ UNCHANGED <<now, ticks, db, dbUp, cache, recent, calls, incAt, sweep, rest>>

\* Mutant: the remaining attempts are not zeroed when the count locks the key.
RemainingAfter_NotZeroed(newCount) == Max0(MAX_FAILED_ATTEMPTS - newCount)

\* Lines 121-122, 150-151
RemainingAfter(newCount) ==
  IF getLockoutDuration(newCount) > 0 THEN 0 ELSE Max0(MAX_FAILED_ATTEMPTS - newCount)

\* Mutant: the lockout of the row read back is counted from created_at.
RowDecision_FromCreated(row) ==
  Decision(getLockoutDuration(row.count) > 0, RemainingAfter(row.count),
           IF getLockoutDuration(row.count) > 0
           THEN row.created + getLockoutDuration(row.count) ELSE NULL)

\* Lines 105-129: the decision from the row read back.
RowDecision(row) ==
  Decision(getLockoutDuration(row.count) > 0, RemainingAfter(row.count), LockoutUntilOf(row))

\* Mutant: the locally tracked count never locks.
LocalDecision_Unlocked(newCount, t) == Decision(FALSE, RemainingAfter(newCount), NULL)

\* Lines 148-164: the decision from a locally tracked count, at time t.
LocalDecision(newCount, t) ==
  Decision(getLockoutDuration(newCount) > 0, RemainingAfter(newCount),
           IF getLockoutDuration(newCount) > 0 THEN t + getLockoutDuration(newCount) ELSE NULL)

\* recordFailedAttempt resumed with the row read back: lines 105-129, or lines
\* 148-164 when the row is gone again.
RecResume(p) ==
  LET pr == proc[p]
      k == KeyOf(pr)
      written == IF pr.back.count > 0
                 THEN [cache EXCEPT ![k] = LoginCacheEntry(pr.back.count, pr.back.created, now)]
                 ELSE [cache EXCEPT ![k] = LoginCacheEntry(1, pr.firstAttempt, now)]
      out == IF pr.back.count > 0
             THEN Outcome(pr, "counted", RowDecision(pr.back), written)
             ELSE Outcome(pr, "norow", LocalDecision(1, now), written)
  IN
  /\ pr.pc = "rec_resume"
  /\ cache' = written
  /\ proc' = [proc EXCEPT ![p] = Returned(pr, out, written, now)]
  /\ ret' = RetOf(pr, out)
  /\ UNCHANGED <<now, ticks, db, dbUp, recent, calls, incAt, sweep, rest>>

\* The catch block of lines 130-146 and then lines 148-164: count in the cache.
RecCatch(p) ==
  LET pr == proc[p]
      k == KeyOf(pr)
      got == LoginCacheGet(cache[k], now)
      attempts == IF got.count > 0 THEN Snap(got) ELSE [count |-> 0, firstAttempt |-> now]
      newCount == attempts.count + 1
      written == [cache EXCEPT ![k] = LoginCacheEntry(newCount, attempts.firstAttempt, now)]
      out == Outcome(pr, "degraded", LocalDecision(newCount, now), written)
  IN
  /\ pr.pc = "rec_catch"
  /\ cache' = written
  /\ proc' = [proc EXCEPT ![p] = Returned(pr, out, written, now)]
  /\ ret' = RetOf(pr, out)
  /\ UNCHANGED <<now, ticks, db, dbUp, recent, calls, incAt, sweep, rest>>

\* ------------------------------------------------------------ environment
\* Time passes; NodeCache entries past their TTL are gone.
Tick(d, limit) ==
  /\ ticks < limit
  /\ ticks' = ticks + 1
  /\ now' = now + d
  /\ cache' = [k \in CacheKeys |-> LoginCacheGet(cache[k], now + d)]
  /\ recent' = [k \in CacheKeys |->
                  IF RecentCacheGet(recent[k], now + d) # NULL THEN recent[k] ELSE NoMark]
  /\ ret' = NoRet
  /\ UNCHANGED <<db, dbUp, proc, calls, incAt, sweep, rest>>

\* Mutant: the sweep uses the first lockout duration as its age limit.
Swept_FirstBand(rows, t) ==
  [k \in RowKeys |->
     IF rows[k].count > 0 /\ rows[k].last < SqlNow(t) - FIRST_LOCKOUT_DURATION
     THEN NoRow ELSE rows[k]]

\* cleanupExpiredAttempts (lines 291-309), run by the hourly timer of lines
\* 321-325: one DELETE of the rows whose last_attempt is more than
\* FINAL_LOCKOUT_DURATION / 60000 minutes before NOW(); an error is logged.
Swept(rows, t) ==
  [k \in RowKeys |->
     IF rows[k].count > 0 /\ rows[k].last < SqlNow(t) - FINAL_LOCKOUT_DURATION
     THEN NoRow ELSE rows[k]]

\* cleanupExpiredAttempts is called (it is exported): the DELETE of
\* line 293 is issued and the call waits for it.
Reaper ==
  /\ InFlight(sweep) < MaxSweeps
  /\ sweep' = [sweep EXCEPT !.pend = @ + 1]
  /\ ret' = NoRet
  /\ UNCHANGED <<now, ticks, db, dbUp, cache, recent, proc, calls, incAt, rest>>

\* The database runs the DELETE of a waiting cleanupExpiredAttempts call, with
\* its own NOW(), or the statement fails.
ReaperDelete ==
  /\ sweep.pend > 0
  /\ db' = IF dbUp THEN Swept(db, now) ELSE db
  /\ sweep' = IF dbUp THEN [sweep EXCEPT !.pend = @ - 1, !.swept = @ + 1]
                      ELSE [sweep EXCEPT !.pend = @ - 1, !.failed = @ + 1]
  /\ UNCHANGED <<now, ticks, dbUp, cache, recent, proc, ret, calls, incAt, rest>>

\* A cleanupExpiredAttempts call resumes after its DELETE (lines 299-308: the
\* count or the caught error is logged) and returns.
ReaperResume ==
  /\ \E ok \in BOOLEAN :
       /\ IF ok THEN sweep.swept > 0 ELSE sweep.failed > 0
       /\ sweep' = IF ok THEN [sweep EXCEPT !.swept = @ - 1]
                         ELSE [sweep EXCEPT !.failed = @ - 1]
       /\ ret' = [out |-> [NoOutcome EXCEPT !.op = "reaper",
                                            !.kind = IF ok THEN "swept"
                                                     ELSE IF "reaper" \in Caught THEN "failed"
                                                     ELSE "threw"],
                  prev |-> NoOutcome]
  /\ UNCHANGED <<now, ticks, db, dbUp, cache, recent, proc, calls, incAt, rest>>

\* The timer of lines 321-325, set when the module was loaded at Epoch: the
\* first time after `now` it comes due.
FirstDue == Epoch + SWEEP_INTERVAL * ((now - Epoch) \div SWEEP_INTERVAL + 1)

\* The clock goes on by d ms, or up to the instant the timer comes due if that is
\* earlier: there the event loop turns, the timer's callback calls
\* cleanupExpiredAttempts, which issues the DELETE of line 293 and waits for it,
\* and whatever is ready runs at that instant (the DELETE, the resumption of
\* the call, other calls) before the clock goes on by what is left of d.
Advance(d) ==
  LET t == IF now + d < FirstDue THEN now + d ELSE FirstDue IN
  /\ now' = t
  /\ rest' = now + d - t
  /\ cache' = [k \in CacheKeys |-> LoginCacheGet(cache[k], t)]
  /\ recent' = [k \in CacheKeys |->
                  IF RecentCacheGet(recent[k], t) # NULL THEN recent[k] ELSE NoMark]
  /\ sweep' = IF t = FirstDue THEN [sweep EXCEPT !.pend = @ + 1] ELSE sweep
  /\ ret' = NoRet
  /\ UNCHANGED <<db, dbUp, proc, calls, incAt>>

\* Time passes by d ms in a process whose timer is running.
TickTimer(d, limit) ==
  /\ rest = 0
  /\ ticks < limit
  /\ ticks' = ticks + 1
  /\ Advance(d)

\* The clock advance that stopped at a due time of the timer goes on.
TickRest ==
  /\ rest > 0
  /\ ticks' = ticks
  /\ Advance(rest)

\* The durable tier becomes unreachable / reachable again.
DbGoesDown ==
  /\ dbUp
  /\ dbUp' = FALSE
  /\ UNCHANGED <<now, ticks, db, cache, recent, proc, ret, calls, incAt, sweep, rest>>

DbComesUp ==
  /\ ~dbUp
  /\ dbUp' = TRUE
  /\ UNCHANGED <<now, ticks, db, cache, recent, proc, ret, calls, incAt, sweep, rest>>

AllIdle == \A p \in Procs : proc[p].pc = "idle"

\* The steps of a task while the durable tier answers.
Step(p) ==
  \/ ChkSelect(p)
  \/ ChkResume(p)
  \/ ClrDelete(p)
  \/ ClrResume(p)
  \/ RecUpsert(p)
  \/ RecSelect(p)
  \/ RecResume(p)

\* ------------------------------------------------------------ login handlers
\* loginUser, loginAdmin, loginStaff (authController.js): one request at a time
\* runs in task Handler; the accountLockout calls it awaits run in task Callee.
Handler == 2
Callee == 1
Handlers == {"user", "admin", "staff"}

\* What the handler's SELECT finds in its credential table, and whether the
\* password then compares equal: general_users rows carry a status and may hold
\* a password that is no bcrypt hash (lines 53-105); admin and staff rows are
\* filtered by status in the SELECT itself (lines 226-229, 373-376).
Found(who) ==
  IF who = "user"
  THEN {"absent", "unverified", "inactive", "plaintext", "wrong", "right"}
  ELSE {"absent", "wrong", "right"}

\* Mutant: the handler ignores the lockout decision.
Refused_Never(lockoutStatus) == FALSE

\* if (lockoutStatus.locked), lines 38, 216, 363
Refused(lockoutStatus) == lockoutStatus.locked

\* The awaited call of the handler has returned.
Awaited(op) == proc[Callee].pc = "idle" /\ ret.out.op = op

\* The handler is at `pc` and has not issued the call of that line yet.
AtCall(pc) == proc[Handler].op = "login" /\ proc[Handler].pc = pc /\ ret.out.op = "none"

LoginGoes(pc) ==
  /\ proc' = [proc EXCEPT ![Handler] = [proc[Handler] EXCEPT !.pc = pc]]
  /\ ret' = NoRet
  /\ UNCHANGED <<now, ticks, db, dbUp, cache, recent, calls, incAt, sweep, rest>>

\* A request arrives with a well-formed e-mail and a password (lines 14-34).
LoginBegin(who, i, a) ==
  /\ proc[Handler].pc = "idle"
  /\ proc[Callee].pc = "idle"
  /\ proc' = [proc EXCEPT ![Handler] =
                [Called("login", i, a, "none") EXCEPT !.pc = "lockout", !.ctx = who]]
  /\ ret' = NoRet
  /\ UNCHANGED <<now, ticks, db, dbUp, cache, recent, calls, incAt, sweep, rest>>

\* await checkAccountLockout(email, clientIP), lines 37, 215, 362
LoginCallsCheck ==
  /\ AtCall("lockout")
  /\ StartCheck(Callee, proc[Handler].ident, proc[Handler].ip)

\* lines 38-45: locked, the request is answered 429; else the SELECT is next.
LoginChecked ==
  /\ proc[Handler].pc = "lockout"
  /\ Awaited("check")
  /\ proc' = [proc EXCEPT ![Handler] =
                [proc[Handler] EXCEPT !.pc = IF Refused(ret.out.dec) THEN "sent_429"
                                             ELSE "lookup",
                                      !.prev = ret.out]]
  /\ ret' = NoRet
  /\ UNCHANGED <<now, ticks, db, dbUp, cache, recent, calls, incAt, sweep, rest>>

\* Mutant: an unknown e-mail is answered 401 without recordFailedAttempt.
LoginLookup_NoRecord(found) ==
  /\ proc[Handler].pc = "lookup"
  /\ found \in Found(proc[Handler].ctx)
  /\ LoginGoes(IF ~dbUp THEN "sent_500"
               ELSE IF found = "unverified" THEN "sent_403"
               ELSE IF found = "absent" THEN "sent_401"
               ELSE IF found \in {"inactive", "plaintext"} THEN "record"
               ELSE IF found = "right" THEN "compare_right"
               ELSE "compare_wrong")

\* The SELECT on the credential table (lines 48-51, 226-229, 373-376) and the
\* synchronous tests on its result; an error reaches the catch block of the
\* handler (lines 182-188).
LoginLookup(found) ==
  /\ proc[Handler].pc = "lookup"
  /\ found \in Found(proc[Handler].ctx)
  /\ LoginGoes(IF ~dbUp THEN "sent_500"
               ELSE IF found = "unverified" THEN "sent_403"
               ELSE IF found \in {"absent", "inactive", "plaintext"} THEN "record"
               ELSE IF found = "right" THEN "compare_right"
               ELSE "compare_wrong")

\* bcrypt.compare (lines 109, 251, 398) or the plain comparison (lines 255, 402)
LoginCompare ==
  /\ proc[Handler].pc \in {"compare_right", "compare_wrong"}
  /\ LoginGoes(IF proc[Handler].pc = "compare_right" THEN "clear" ELSE "record")

\* await recordFailedAttempt(email, clientIP), lines 55, 75, 96, 113
LoginCallsRecord ==
  /\ AtCall("record")
  /\ StartRecord(Callee, proc[Handler].ident, proc[Handler].ip, "none")

LoginRecorded ==
  /\ proc[Handler].pc = "record"
  /\ Awaited("record")
  /\ LoginGoes(IF ret.out.kind = "threw" THEN "sent_500" ELSE "sent_401")

\* await clearFailedAttempts(email, clientIP), lines 122, 270, 417
LoginCallsClear ==
  /\ AtCall("clear")
  /\ StartClear(Callee, proc[Handler].ident, proc[Handler].ip, "none")

LoginCleared ==
  /\ proc[Handler].pc = "clear"
  /\ Awaited("clear")
  /\ LoginGoes("log")

\* What the token step meets: JWT_SECRET set and jwt.sign returns, JWT_SECRET
\* not set (lines 155-161, 302-308, 452-458), or jwt.sign throws into the catch
\* block of the handler (lines 182-188).
Tokens == {"signed", "unset", "threw"}

\* The activity-log INSERT has settled (lines 125-133, 273-282, 421-431; its
\* error is logged only), then the token is made and the response sent.
LoginLogged(token) ==
  /\ proc[Handler].pc = "log"
  /\ token \in Tokens
  /\ LoginGoes(IF token = "signed" THEN "sent_200" ELSE "sent_500")

\* The response is sent; the handler is over.
LoginEnd ==
  /\ proc[Handler].pc \in {"sent_200", "sent_401", "sent_403", "sent_429", "sent_500"}
  /\ proc' = [proc EXCEPT ![Handler] = IdleProc]
  /\ ret' = NoRet
  /\ UNCHANGED <<now, ticks, db, dbUp, cache, recent, calls, incAt, sweep, rest>>

\* ------------------------------------------------------------ claims
TheKey == getAttemptKey("ann", "ip1")
TheRow == RowKey("ann", "ip1")

\* lastAttemptAt + lockoutDuration(count) has passed at time t.
ExpiredAt(row, t) ==
  /\ row.count > 0
  /\ getLockoutDuration(row.count) > 0
  /\ t >= row.last + getLockoutDuration(row.count)

\* The lockout of the row is running at time t.
LockedAt(row, t) ==
  /\ row.count > 0
  /\ getLockoutDuration(row.count) > 0
  /\ t < row.last + getLockoutDuration(row.count)

\* recordFailedAttempt calls past the dedup check whose upsert has not run yet.
Pending(k) ==
  Cardinality({p \in Procs : /\ proc[p].op = "record"
                             /\ RowOf(proc[p]) = k
                             /\ (proc[p].ctx = "main" \/ proc[p].pc = "rec_upsert")})

\* C1 as stated: when all recordFailedAttempt calls have returned, the durable
\* count equals the number N of calls made outside each other's dedup window.
C1_AllCallsCounted ==
  \A k \in RowKeys : AllIdle => db[k].count = calls[k]

\* C1 amended: for N up to the first lockout threshold (3), on a key with no
\* record, every one of N concurrent calls outside each other's dedup window is
\* counted: the durable count equals N less the calls whose upsert is still to
\* run, hence exactly N when all have returned.
C1_NoLostUpdateUpToThreshold ==
  \A k \in RowKeys :
    calls[k] <= FIRST_LOCKOUT_THRESHOLD => db[k].count + Pending(k) = calls[k]

\* Three overlapping calls have all run their upserts and all three are counted.
C1_Witness ==
  /\ \A p \in {1, 2, 3} : proc[p].pc = "rec_select"
  /\ calls[TheRow] = 3
  /\ db[TheRow].count = 3

\* C2: with the durable tier available, every change of a durable row is its
\* deletion, its creation with count 1, or a rise of its count by exactly 1 with
\* last_attempt set to the (whole-second) time of the increment and created_at
\* kept; and every call that is neither dedup-suppressed nor blocked makes
\* exactly that change when its upsert runs, whatever the other calls do.
C2_AtomicIncrement ==
  [][/\ \A k \in RowKeys :
          db'[k] # db[k] =>
            \/ db'[k] = NoRow
            \/ /\ db[k] = NoRow
               /\ db'[k] = [count |-> 1, created |-> SqlNow(now), last |-> SqlNow(now)]
            \/ /\ db[k] # NoRow
               /\ db'[k] = [count |-> db[k].count + 1, created |-> db[k].created,
                            last |-> SqlNow(now)]
     /\ \A p \in Procs :
          (proc[p].pc = "rec_upsert" /\ proc'[p].pc # "rec_upsert") =>
            /\ proc'[p].pc = "rec_select"
            /\ db'[RowOf(proc[p])].count = db[RowOf(proc[p])].count + 1
            /\ db'[RowOf(proc[p])].last = SqlNow(now)
    ]_vars

\* One call has incremented the row to 2 while the other's upsert is pending.
C2_Witness ==
  /\ proc[1].pc = "rec_select"
  /\ proc[2].pc = "rec_upsert"
  /\ db[TheRow].count = 2
  /\ db[TheRow].last > db[TheRow].created

\* C3: a call's upsert never runs when the call began less than the dedup window
\* (3 s) after the beginning of the previous call whose upsert ran (no
\* clearAttempts call in between): at most one increment per window.
C3_OneIncrementPerWindow ==
  [][\A p \in Procs :
       (proc[p].pc = "rec_upsert" /\ proc'[p].pc = "rec_select") =>
         \/ incAt[RowOf(proc[p])] = NULL
         \/ proc[p].t0 - incAt[RowOf(proc[p])] >= DEDUP_MS
    ]_vars

\* C4: when the lockout check of a recordFailedAttempt call reads a row whose
\* lockout is running, the call returns {locked: true, remainingAttempts: 0,
\* lockoutUntil} with lockoutUntil that of the row, and the step changes neither
\* the row nor the cache entry's count and firstAttempt; the call's earlier steps
\* change neither tier either.
C4_BlockedCallChangesNothing ==
  [][\A p \in Procs :
       LET pr == proc[p]
           k == KeyOf(pr)
           r == RowOf(pr)
       IN
       /\ (pr.op = "record" /\ pr.pc = "chk_resume" /\ proc'[p] # pr /\ ~pr.dbErr
              /\ LockedAt(db[r], now)) =>
            /\ ret'.out.op = "record"
            /\ ret'.out.dec = Decision(TRUE, 0, db[r].last + getLockoutDuration(db[r].count))
            /\ db' = db
            /\ Snap(cache'[k]) = Snap(cache[k])
       /\ (pr.op = "record" /\ pr.pc = "chk_select" /\ proc'[p] # pr) =>
            (db' = db /\ cache' = cache)
       /\ (pr.pc = "idle" /\ proc'[p].op = "record") =>
            (db' = db /\ cache' = cache)
    ]_vars

\* C5: the count of a row is never raised at a moment when the row's lockout is
\* running.
C5_NoIncrementWhileLocked ==
  [][\A k \in RowKeys :
       (db[k].count > 0 /\ db'[k].count > db[k].count) => ~LockedAt(db[k], now)
    ]_vars

\* C6: a recordFailedAttempt call that is not dedup-suppressed and whose lockout
\* check read a row whose lockout has run out by the time the call returns leaves
\* the row at count 1 and returns {locked: false, remainingAttempts: 4} (durable
\* tier available, no other call on the key in flight).
C6_CountedFailureStartsAtOne ==
  (ret.out.op = "record" /\ ret.out.kind # "dedup" /\ ~ret.out.dbErr
     /\ ExpiredAt(ret.out.row, now)) =>
    (ret.out.dbn = 1 /\ ret.out.dec = Decision(FALSE, MAX_FAILED_ATTEMPTS - 1, NULL))

\* The fourth call past the dedup check began just now and checkAccountLockout
\* followed it at once.
C7_AfterFourthFailure ==
  /\ ret.out.op = "check"
  /\ ret.prev.op = "record"
  /\ ret.prev.kind # "dedup"
  /\ calls[TheRow] = 4
  /\ recent[TheKey].at = now

\* C7 as stated: after four failures checkAccountLockout returns {locked: true,
\* remainingAttempts: 0, lockoutUntil: time of the fourth failure + 5 minutes}.
C7_LockedFromFourthFailure ==
  C7_AfterFourthFailure =>
    ret.out.dec = Decision(TRUE, 0, recent[TheKey].at + FIRST_LOCKOUT_DURATION)

\* The fourth recordFailedAttempt call past the dedup check read the row of count
\* 3 the third call left, checkAccountLockout followed it, and as that call
\* returns the lockout the third call set (last_attempt + 5 minutes of the row
\* read) is still running.
C7_FourthWhileLocked ==
  /\ ret.out.op = "check"
  /\ ret.prev.op = "record"
  /\ ret.prev.kind # "dedup"
  /\ calls[TheRow] = 4
  /\ ret.prev.row.count = FIRST_LOCKOUT_THRESHOLD
  /\ now < ret.prev.row.last + FIRST_LOCKOUT_DURATION

\* C7 amended: when the fourth failure and the checkAccountLockout after it both
\* return while the lockout of the third is running, the fourth is not counted:
\* the row is as the third call left it, with count 3, and checkAccountLockout
\* returns {locked: true, remainingAttempts: 0, lockoutUntil: last_attempt + 5
\* minutes} with last_attempt the time the third failure was recorded.
C7_LockedFromThirdFailure ==
  C7_FourthWhileLocked =>
    /\ ret.prev.kind = "blocked"
    /\ db[TheRow] = ret.prev.row
    /\ ret.out.dec = Decision(TRUE, 0, ret.prev.row.last + FIRST_LOCKOUT_DURATION)

\* The fourth call was made one millisecond before the lockout of the third ran
\* out, was blocked, and the check after it returned before the lockout ended.
C7_Witness ==
  /\ C7_FourthWhileLocked
  /\ now = ret.prev.row.last + FIRST_LOCKOUT_DURATION - 1
  /\ ret.out.dec.locked
  /\ db[TheRow].count = 3

\* C8: when a recordFailedAttempt call has raised the count to 5, in the row it
\* read back or, the upsert having failed, in the cache entry alone, a
\* checkAccountLockout that follows at once reports locked with lockoutUntil =
\* time of that failure + 30 minutes: last_attempt of the row read back, or the
\* lockoutUntil the recordFailedAttempt call itself returned (line 151).
C8_FinalThresholdLocksLong ==
  (/\ ret.out.op = "check"
   /\ ret.prev.op = "record"
   /\ \/ ret.prev.kind = "counted" /\ ret.prev.back.count = MAX_FAILED_ATTEMPTS
      \/ ret.prev.kind = "degraded" /\ ret.prev.cn = MAX_FAILED_ATTEMPTS) =>
    ret.out.dec =
      Decision(TRUE, 0,
               IF ret.prev.kind = "counted"
               THEN ret.prev.back.last + FINAL_LOCKOUT_DURATION
               ELSE ret.prev.dec.lockoutUntil)

\* C9: a checkAccountLockout that reads a row whose lockoutUntil has passed
\* reports {locked: false, lockoutUntil: null, remainingAttempts: 5}, and when it
\* returns the row and the cache entry are gone.
C9_ExpiredLockoutResets ==
  (ret.out.op = "check" /\ ~ret.out.dbErr /\ ExpiredAt(ret.out.row, now)) =>
    /\ ret.out.dec = Decision(FALSE, MAX_FAILED_ATTEMPTS, NULL)
    /\ ret.out.dbn = 0
    /\ ret.out.cn = 0
    /\ db[TheRow] = NoRow
    /\ cache[TheKey] = NoEntry

\* C10: a checkAccountLockout that follows clearFailedAttempts at once reports
\* locked = false and remainingAttempts = 5.
C10_ClearThenCheckIsClean ==
  (ret.out.op = "check" /\ ret.prev.op = "clear") =>
    (~ret.out.dec.locked /\ ret.out.dec.remainingAttempts = MAX_FAILED_ATTEMPTS)

\* A decision object {locked, remainingAttempts, lockoutUntil} with a boolean, a
\* count within the budget and a time or null.
WellFormed(d) ==
  /\ d.locked \in BOOLEAN
  /\ d.remainingAttempts \in 0..MAX_FAILED_ATTEMPTS
  /\ (d.lockoutUntil = NULL \/ d.lockoutUntil > 0)

\* C11: when every durable-tier statement fails, no call and no reaper run ends
\* with an exception reaching its caller, and every recordFailedAttempt and
\* checkAccountLockout call, up to and beyond the sixth failure on the key,
\* returns a well-formed decision {locked, remainingAttempts, lockoutUntil}.
C11_NoExceptionEscapes ==
  /\ ~dbUp
  /\ ret.out.kind # "threw"
  /\ (ret.out.op \in {"record", "check"} => WellFormed(ret.out.dec))

\* The sixth recordFailedAttempt call past the dedup check has returned, blocked
\* by the lockout the cache alone tracks.
C11_Witness ==
  /\ ~dbUp
  /\ calls[TheRow] = 6
  /\ ret.out.op = "record"
  /\ ret.out.kind = "blocked"
  /\ ret.out.dbErr
  /\ cache[TheKey].count = MAX_FAILED_ATTEMPTS

\* C12: getLockoutDuration is defined for every count and has exactly three
\* bands: 0 below 3, 5 minutes from 3 to 4, 30 minutes from 5 on; hence it never
\* decreases as the count grows.
C12_ThreeBands ==
  /\ \A c \in 0..MaxProbe :
       /\ getLockoutDuration(c) =
            (IF c < 3 THEN 0 ELSE IF c < 5 THEN 5 * 60 * 1000 ELSE 30 * 60 * 1000)
       /\ (c > 0 => getLockoutDuration(c - 1) <= getLockoutDuration(c))
  /\ \A k \in RowKeys :
       getLockoutDuration(db[k].count) \in {0, FIRST_LOCKOUT_DURATION, FINAL_LOCKOUT_DURATION}

\* checkAccountLockout has applied the function to a count above 5 and answered
\* with the 30-minute lockout.
C12_Witness ==
  /\ ret.out.op = "check"
  /\ ret.out.row.count = MaxProbe
  /\ ret.out.dec.locked
  /\ ret.out.dec.lockoutUntil = ret.out.row.last + 30 * 60 * 1000

\* locked exactly when lockoutUntil is set; locked leaves no attempts; the
\* remaining attempts stay within the budget.
Consistent(d) ==
  /\ (d.locked <=> d.lockoutUntil # NULL)
  /\ (d.locked => d.remainingAttempts = 0)
  /\ d.remainingAttempts >= 0
  /\ d.remainingAttempts <= 5

\* C13: every decision returned by checkAccountLockout or recordFailedAttempt,
\* from the row, from the cache alone, dedup-suppressed or blocked, has
\* locked = TRUE exactly when lockoutUntil is not null, remainingAttempts = 0
\* when locked, and 0 <= remainingAttempts <= 5.
C13_DecisionConsistent ==
  /\ (ret.out.op \in {"record", "check"} => Consistent(ret.out.dec))
  /\ (ret.prev.op \in {"record", "check"} => Consistent(ret.prev.dec))

\* A failure counted in the cache alone has locked the key, and the check that
\* followed at once has answered from the cache as well.
C13_Witness ==
  /\ ret.prev.op = "record"
  /\ ret.prev.kind = "degraded"
  /\ ret.prev.dec.locked
  /\ ret.out.op = "check"
  /\ ret.out.dbErr

\* The decision the count c and the last-attempt time t call for.
DecisionFor(c, t) ==
  IF getLockoutDuration(c) > 0
  THEN Decision(TRUE, 0, t + getLockoutDuration(c))
  ELSE Decision(FALSE, MAX_FAILED_ATTEMPTS - c, NULL)

\* C14: a recordFailedAttempt call that has incremented the count to c returns
\* locked = (getLockoutDuration(c) > 0), remainingAttempts = 0 when locked and
\* 5 - c otherwise, lockoutUntil = lastAttemptAt + getLockoutDuration(c) when
\* locked and null otherwise; lastAttemptAt is the row's last_attempt after the
\* increment, or, when the count is kept in the cache alone, the time of the
\* increment.
C14_DecisionAfterIncrement ==
  /\ (ret.out.op = "record" /\ ret.out.kind = "counted") =>
       /\ ret.out.back = db[TheRow]
       /\ ret.out.dec = DecisionFor(db[TheRow].count, db[TheRow].last)
  /\ (ret.out.op = "record" /\ ret.out.kind = "degraded") =>
       /\ ret.out.cn = cache[TheKey].count
       /\ ret.out.dec = DecisionFor(cache[TheKey].count, now)

\* The increment to 3 has been read back and the call has returned the
\* 5-minute lockout counted from the row's last_attempt.
C14_Witness ==
  /\ ret.out.op = "record"
  /\ ret.out.kind = "counted"
  /\ db[TheRow].count = 3
  /\ db[TheRow].last > db[TheRow].created
  /\ ret.out.dec.lockoutUntil = db[TheRow].last + FIRST_LOCKOUT_DURATION

\* The decision the durable row alone calls for at time t.
DurableDecision(row, t) ==
  IF row.count = 0 \/ ExpiredAt(row, t) THEN Decision(FALSE, MAX_FAILED_ATTEMPTS, NULL)
  ELSE IF LockedAt(row, t)
  THEN Decision(TRUE, 0, row.last + getLockoutDuration(row.count))
  ELSE Decision(FALSE, MAX_FAILED_ATTEMPTS - row.count, NULL)

\* C15: a checkAccountLockout whose SELECT succeeded returns the decision of the
\* durable row alone (full budget when there is no row), whatever the cache holds.
C15_DurableDecides ==
  (ret.out.op = "check" /\ ~ret.out.dbErr) =>
    ret.out.dec = DurableDecision(ret.out.row, now)

\* C16 as stated: after a checkAccountLockout that read an unexpired row, the
\* cache holds an entry for the key whose count is not behind the row's.
C16_CacheNotBehind ==
  (ret.out.op = "check" /\ ~ret.out.dbErr /\ ret.out.row.count > 0
     /\ ~ExpiredAt(ret.out.row, now)) =>
    ret.out.cn >= ret.out.row.count

\* C16 amended: when checkAccountLockout resumes with an unexpired row and the
\* cache entry it read as it began was absent or had a lower count, it overwrites
\* the cache entry with the row's count and created_at (TTL 900 s).
C16_StaleCacheOverwritten ==
  [][\A p \in Procs :
       LET pr == proc[p] IN
       (/\ pr.pc = "chk_resume"
        /\ proc'[p] # pr
        /\ ~pr.dbErr
        /\ pr.row.count > 0
        /\ ~ExpiredAt(pr.row, now)
        /\ (pr.attempts.count = 0 \/ pr.attempts.count < pr.row.count)) =>
         cache'[KeyOf(pr)] = [count |-> pr.row.count, firstAttempt |-> pr.row.created,
                              exp |-> now + 900 * 1000]
    ]_vars

\* After a restart a check has read a row of count 2 and filled the empty cache
\* from it.
C16_Witness ==
  /\ ret.out.op = "check"
  /\ ret.out.row.count = 2
  /\ ret.out.row = db[TheRow]
  /\ cache[TheKey].count = 2
  /\ cache[TheKey].firstAttempt = db[TheRow].created

\* C17: the only change a checkAccountLockout call (made by a caller, not from
\* within recordFailedAttempt) ever makes to a row is the deletion of a row
\* whose lockout has run out; it creates no row and changes no count, created_at
\* or last_attempt.
C17_CheckOnlyDeletesExpired ==
  [][\A p \in Procs :
       (proc[p].op = "check" /\ proc'[p] # proc[p]) =>
         \A k \in RowKeys :
           db'[k] # db[k] => (db'[k] = NoRow /\ ExpiredAt(db[k], now))
    ]_vars

\* C18: the DELETE of an expiry cleanup removes only the expired row its call
\* read: it never removes a row created after that, so no failure recorded in
\* the new window is lost.
C18_CleanupSparesFreshRow ==
  [][\A p \in Procs :
       (proc[p].pc = "clr_delete" /\ proc[p].clrFrom = "chk" /\ proc'[p].pc = "clr_resume") =>
         \A k \in RowKeys : db'[k] # db[k] => db[k] = proc[p].row
    ]_vars

\* C19: when clearFailedAttempts, called by the login handler after a successful
\* login, has returned, nothing is tracked for the key: the cache entry, the
\* dedup marker and the durable row are all absent.
C19_ClearLeavesNothing ==
  (ret.out.op = "clear" /\ ret.prev.op = "none") =>
    /\ cache[TheKey] = NoEntry
    /\ recent[TheKey] = NoMark
    /\ db[TheRow] = NoRow

\* C20: the cache key does not depend on the letter case of the identifier:
\* getAttemptKey(identifier, ip) = getAttemptKey(lowercase(identifier), ip), so
\* the cache holds one entry and one dedup marker for all the spellings of an
\* identifier, as the durable tier holds one row.
C20_KeyIgnoresCase ==
  \A i \in Spellings, a \in Ips :
    /\ getAttemptKey(i, a) = getAttemptKey(Lower(i), a)
    /\ cache[getAttemptKey(i, a)] = cache[getAttemptKey(Lower(i), a)]
    /\ recent[getAttemptKey(i, a)] = recent[getAttemptKey(Lower(i), a)]

\* C21: every login handler calls checkAccountLockout first; when the decision is
\* locked the request is answered 429 and is over: no SELECT on the credential
\* table, no password comparison, no recordFailedAttempt and no
\* clearFailedAttempts runs for it, and nothing tracked changes.
C21_LockedIsRefusedFirst ==
  [][LET h == proc[Handler]
         h2 == proc'[Handler]
     IN
     /\ (h.pc = "idle" /\ h2.pc # "idle") => h2.pc = "lockout"
     /\ (h.pc = "lockout" /\ h2.pc # "lockout") =>
          /\ ret.out.op = "check"
          /\ IF ret.out.dec.locked
             THEN h2.pc = "sent_429" /\ proc'[Callee] = proc[Callee]
             ELSE h2.pc = "lookup"
     /\ h.pc = "sent_429" =>
          /\ h2.pc \in {"sent_429", "idle"}
          /\ proc'[Callee].pc = "idle"
          /\ db' = db /\ calls' = calls
    ]_vars

C21_Witness ==
  /\ proc[Handler].pc = "sent_429"
  /\ proc[Handler].prev.dec.locked
  /\ db[TheRow].count = FIRST_LOCKOUT_THRESHOLD

\* C22: a step changes a durable row in one of three ways only: it creates it
\* with count 1, it raises its count by 1, or it deletes it; and a row is deleted
\* only by the DELETE of a clearFailedAttempts call made by a caller (after a
\* successful login), by the DELETE of an expiry cleanup when the row's lockout
\* has run out, or by the DELETE of a sweep (called, or made by the hourly timer
\* while time passes) of a row older than FINAL_LOCKOUT_DURATION.
C22_CountNeverDecreases ==
  [][\A k \in RowKeys :
       db'[k] # db[k] =>
         \/ db'[k].count = db[k].count + 1
         \/ /\ db'[k] = NoRow
            /\ \/ \E p \in Procs :
                    /\ proc[p].pc = "clr_delete" /\ proc'[p].pc = "clr_resume"
                    /\ RowOf(proc[p]) = k
                    /\ \/ proc[p].clrFrom = "top"
                       \/ proc[p].clrFrom = "chk" /\ ExpiredAt(db[k], now)
               \/ /\ proc' = proc
                  /\ sweep'.pend < sweep.pend
                  /\ db[k].last < SqlNow(now) - FINAL_LOCKOUT_DURATION
    ]_vars

\* C23: the DELETE of a sweep (cleanupExpiredAttempts) that succeeds deletes
\* exactly the rows whose last_attempt is more than FINAL_LOCKOUT_DURATION
\* before the database clock and leaves every other row as it is, so no row with
\* a running lockout is deleted; a DELETE that fails changes no row and its
\* error is caught, the call returning normally; the sweep changes nothing else,
\* the caches are untouched; a clock step changes no row, the timer's calls made
\* meanwhile only issue their DELETE.
C23_SweepDeletesExactlyStale ==
  [][/\ sweep'.pend < sweep.pend =>
          /\ proc' = proc
          /\ cache' = cache
          /\ recent' = recent
          /\ IF dbUp
             THEN /\ sweep'.swept = sweep.swept + 1
                  /\ \A k \in RowKeys :
                       /\ db'[k] = IF db[k].count > 0
                                      /\ SqlNow(now) - db[k].last > FINAL_LOCKOUT_DURATION
                                   THEN NoRow ELSE db[k]
                       /\ LockedAt(db[k], now) => db'[k] = db[k]
             ELSE /\ sweep'.failed = sweep.failed + 1
                  /\ db' = db
     /\ (sweep'.swept < sweep.swept \/ sweep'.failed < sweep.failed) =>
          /\ ret'.out.op = "reaper"
          /\ ret'.out.kind = IF sweep'.swept < sweep.swept THEN "swept" ELSE "failed"
          /\ db' = db
          /\ cache' = cache
          /\ recent' = recent
     /\ (ticks' # ticks \/ rest' # rest) =>
          /\ db' = db
          /\ sweep'.pend = sweep.pend + (IF (now' - Epoch) % SWEEP_INTERVAL = 0 THEN 1 ELSE 0)
    ]_vars

\* A sweep has just deleted the row of one counted failure.
C23_Witness ==
  /\ ret.out.op = "reaper"
  /\ ret.out.kind = "swept"
  /\ calls[TheRow] = 1
  /\ incAt[TheRow] # NULL
  /\ db[TheRow] = NoRow

\* A sweep has just failed and left the row of a running lockout in place.
C23_WitnessFailed ==
  /\ ret.out.op = "reaper"
  /\ ret.out.kind = "failed"
  /\ db[TheRow].count > 0

\* What checkAccountLockout returns when its SELECT reads `row`, its cache read
\* found `attempts`, the clock shows t at line 218 and t3 at lines 235 and 264
\* (lines 210-285; the expiry branches return the full budget after the cleanup).
CheckReturns(row, attempts, t, t3) ==
  LET hasRow == row.count > 0
      synced == IF hasRow THEN SyncedAttempts(attempts, row) ELSE attempts
  IN
  IF hasRow /\ RowExpired(row, t) THEN Decision(FALSE, MAX_FAILED_ATTEMPTS, NULL)
  ELSE IF hasRow /\ RowLocked(row, t3) THEN Decision(TRUE, 0, LockoutUntilOf(row))
  ELSE IF CacheExpired(synced, t3) THEN Decision(FALSE, MAX_FAILED_ATTEMPTS, NULL)
  ELSE CacheDecision(synced, t3)

\* C24: a sweep changes no decision: what checkAccountLockout returns for a key
\* right after a sweep is what it would have returned had the sweep not run.
C24_SweepChangesNoDecision ==
  [][sweep'.pend < sweep.pend =>
       \A i \in Identifiers, a \in Ips :
         LET attempts == Snap(LoginCacheGet(cache[getAttemptKey(i, a)], now)) IN
         CheckReturns(db'[RowKey(i, a)], attempts, now, now)
           = CheckReturns(db[RowKey(i, a)], attempts, now, now)
    ]_vars

\* C25: while the lockout of a row is running (now < L = last_attempt +
\* lockout duration) no step changes the row, except the DELETE of a
\* clearFailedAttempts call made by a caller, so L never moves; and every
\* checkAccountLockout and recordFailedAttempt call on the key that returns
\* meanwhile returns {locked: true, remainingAttempts: 0, lockoutUntil: L}.
C25_LockoutUntilIsFixed ==
  [][\A k \in RowKeys :
       LockedAt(db[k], now) =>
         /\ \/ db'[k] = db[k]
            \/ /\ db'[k] = NoRow
               /\ \E p \in Procs : proc[p].pc = "clr_delete" /\ proc[p].clrFrom = "top"
         /\ \A p \in Procs :
              (proc[p].op \in {"check", "record"} /\ RowOf(proc[p]) = k
                 /\ proc'[p].pc = "idle" /\ proc[p].pc # "idle") =>
                ret'.out.dec = Decision(TRUE, 0, db[k].last + getLockoutDuration(db[k].count))
    ]_vars

\* C26: when a statement of recordFailedAttempt's durable part has thrown, the
\* catch block raises the count of the cache entry by exactly 1 (to 1, with
\* firstAttempt = now, when there is no entry), keeps the entry's firstAttempt,
\* and the call returns the policy's decision for the new count: locked from
\* count 3 on with lockoutUntil = now + the lockout duration, else
\* remainingAttempts = 5 - count; the steps of the call before that leave the
\* entry's count and firstAttempt alone unless its lockout check cleans up.
C26_DegradedCountsInCache ==
  [][\A p \in Procs :
       LET pr == proc[p]
           k == KeyOf(pr)
           had == LoginCacheGet(cache[k], now)
           n == had.count + 1
       IN
       /\ (pr.pc = "rec_catch" /\ proc'[p] # pr) =>
            /\ cache'[k].count = n
            /\ cache'[k].firstAttempt = IF had.count > 0 THEN had.firstAttempt ELSE now
            /\ db' = db
            /\ ret'.out.op = "record"
            /\ ret'.out.dec.locked = (n >= FIRST_LOCKOUT_THRESHOLD)
            /\ ret'.out.dec.remainingAttempts =
                 IF n >= FIRST_LOCKOUT_THRESHOLD THEN 0 ELSE MAX_FAILED_ATTEMPTS - n
            /\ ret'.out.dec.lockoutUntil =
                 IF n >= MAX_FAILED_ATTEMPTS THEN now + FINAL_LOCKOUT_DURATION
                 ELSE IF n >= FIRST_LOCKOUT_THRESHOLD THEN now + FIRST_LOCKOUT_DURATION
                 ELSE NULL
       /\ (pr.op = "record" /\ pr.dbErr /\ pr.pc \in {"chk_resume", "rec_upsert"}
             /\ proc'[p] # pr /\ proc'[p].pc # "clr_delete") =>
            Snap(cache'[k]) = Snap(cache[k])
    ]_vars

\* A call has counted the second failure in the cache alone: the row was never
\* written.
C26_Witness ==
  /\ ret.out.op = "record"
  /\ ret.out.kind = "degraded"
  /\ ret.out.dbErr
  /\ ret.out.cn = 2
  /\ db[TheRow] = NoRow
  /\ ret.out.dec = Decision(FALSE, 3, NULL)

\* C27: every checkAccountLockout, recordFailedAttempt and clearFailedAttempts
\* call returns to its caller, whether or not the statement it awaits on the
\* durable tier ever completes.
C27_EveryCallReturns ==
  \A p \in {1} : (proc[p].pc # "idle") ~> (proc[p].pc = "idle")

\* C28: with calls that never overlap and the durable tier available, no row
\* ever holds a count above 3, the first lockout threshold: the 30-minute band
\* of getLockoutDuration (count >= 5) is never entered and no decision carries a
\* lockout longer than 5 minutes.
C28_CountAtMostThree ==
  /\ \A k \in RowKeys : db[k].count <= FIRST_LOCKOUT_THRESHOLD
  /\ \A k \in CacheKeys : cache[k].count <= FIRST_LOCKOUT_THRESHOLD
  /\ ret.out.dec.locked => ret.out.dec.lockoutUntil <= now + FIRST_LOCKOUT_DURATION

\* C29: when recordFailedAttempt has returned locked = true, a
\* checkAccountLockout on the same key that follows at once (it returns before
\* the lockoutUntil that recordFailedAttempt reported) returns locked = true as
\* well, whether the durable tier answers or not.
C29_CheckAgreesWithRecord ==
  (/\ ret.out.op = "check"
   /\ ret.prev.op = "record"
   /\ ret.prev.dec.locked
   /\ now < ret.prev.dec.lockoutUntil) =>
    ret.out.dec.locked

\* C30: with the durable tier unavailable throughout, a cache entry of count
\* c >= 3 means a recordFailedAttempt call reported the key locked until some L
\* not earlier than firstAttempt + the lockout duration of c; a
\* checkAccountLockout that returns before firstAttempt + that duration, hence
\* before L, returns locked = true.
C30_DegradedLockoutHolds ==
  (/\ ret.out.op = "check"
   /\ ret.out.dbErr
   /\ cache[TheKey].count >= FIRST_LOCKOUT_THRESHOLD
   /\ now < cache[TheKey].firstAttempt + getLockoutDuration(cache[TheKey].count)) =>
    ret.out.dec.locked

\* C31: a dedup-suppressed recordFailedAttempt call (lines 59-66) raises the
\* count in neither tier and leaves the dedup marker as it is, neither refreshed
\* nor removed, so the marker lasts 3 seconds from the call that set it; the
\* decision it returns is the one its checkAccountLockout returned.
C31_SuppressedCallChangesNothing ==
  [][\A p \in Procs :
       LET pr == proc[p]
           k == KeyOf(pr)
           r == RowOf(pr)
       IN
       /\ (pr.pc = "idle" /\ proc'[p].op = "record" /\ proc'[p].ctx = "dedup") =>
            /\ recent' = recent
            /\ db' = db
            /\ cache' = cache
       /\ (pr.op = "record" /\ pr.ctx = "dedup" /\ proc'[p] # pr) =>
            /\ db'[r].count <= db[r].count
            /\ cache'[KeyOf(pr)].count <= Max0(db[r].count - cache[k].count) + cache[k].count
            /\ recent'[k] = recent[k]
            /\ (proc'[p].pc = "idle" /\ pr.pc = "chk_resume") =>
                 ret'.out.dec = CheckReturns(IF pr.dbErr THEN NoRow ELSE pr.row,
                                             pr.attempts, now, now')
    ]_vars

\* C32: a recordFailedAttempt call that begins when a clearFailedAttempts call on
\* the key has just returned is not dedup-suppressed: it sets the marker and
\* goes on to the upsert; and the first call past the dedup test since a clear
\* returns having counted, with the row at count 1 and 4 attempts remaining.
C32_RecordAfterClearCounts ==
  [][\A p \in Procs :
       LET pr == proc[p]
           r == RowOf(pr)
       IN
       /\ (pr.pc = "idle" /\ proc'[p].op = "record" /\ ret.out.op = "clear") =>
            /\ proc'[p].ctx = "main"
            /\ recent'[KeyOf(proc'[p])].at = now
            /\ calls'[RowOf(proc'[p])] = 1
            /\ db[RowOf(proc'[p])] = NoRow
       /\ (pr.op = "record" /\ pr.pc = "rec_select" /\ calls[r] = 1 /\ proc'[p].pc # "rec_select") =>
            db[r].count = 1
       /\ (pr.op = "record" /\ pr.pc # "idle" /\ proc'[p].pc = "idle" /\ calls[r] = 1) =>
            \/ pr.ctx = "dedup"
            \/ /\ ret'.out.kind = "counted"
               /\ db'[r].count = 1
               /\ ret'.out.dec = Decision(FALSE, MAX_FAILED_ATTEMPTS - 1, NULL)
    ]_vars

\* The first failure since a clearFailedAttempts call (or since the start) has
\* been counted at the very instant the clock started: no dedup marker could
\* have lapsed before it.
C32_Witness ==
  /\ ret.out.op = "record"
  /\ ret.out.kind = "counted"
  /\ ret.out.dbn = 1
  /\ calls[TheRow] = 1
  /\ recent[TheKey].at = now
  /\ ticks = 0

\* C33: created_at of a row is the database time of the statement that inserted
\* it and no step changes it while the row exists; the cache entry written after
\* an upsert was read back (lines 104-117), or by the sync of checkAccountLockout
\* (lines 225-232), carries the created_at of the row, if the row still exists,
\* as its firstAttempt.
C33_FirstAttemptFixed ==
  [][/\ \A r \in RowKeys :
          /\ (db[r].count > 0 /\ db'[r].count > 0) => db'[r].created = db[r].created
          /\ (db[r].count = 0 /\ db'[r].count > 0) => db'[r].created = SqlNow(now)
     /\ \A p \in Procs :
          LET pr == proc[p]
              k == KeyOf(pr)
              r == RowOf(pr)
          IN
          /\ (pr.pc = "rec_resume" /\ proc'[p] # pr /\ pr.back.count > 0 /\ db'[r].count > 0) =>
               cache'[k].firstAttempt = db'[r].created
          /\ (pr.pc = "chk_resume" /\ proc'[p] # pr /\ cache'[k] # cache[k] /\ cache'[k].count > 0
                /\ db'[r].count > 0) =>
               cache'[k].firstAttempt = db'[r].created
    ]_vars

\* C34: in loginUser, loginAdmin and loginStaff a request is answered 401 only
\* from the line after its one awaited recordFailedAttempt call, and 200 only
\* after its one awaited clearFailedAttempts call, the activity log and the token.  The handler
\* starts recordFailedAttempt only at the failure sites, reached from the
\* credential lookup or a failed comparison after an unlocked lockout check, and
\* clearFailedAttempts only after a successful comparison; once the awaited call
\* has returned the handler's next step is the response, so a request makes one
\* such call, and a request that makes one never makes the other.
C34_OneCallPerRequest ==
  [][LET h == proc[Handler]
         h2 == proc'[Handler]
         c == proc[Callee]
         c2 == proc'[Callee]
     IN
     /\ (c.pc = "idle" /\ c2.op = "record") =>
          /\ h.pc = "record" /\ ret.out.op = "none" /\ h2 = h
          /\ c2.ident = h.ident /\ c2.ip = h.ip
     /\ (c.pc = "idle" /\ c2.op = "clear") =>
          /\ h.pc = "clear" /\ ret.out.op = "none" /\ h2 = h
          /\ c2.ident = h.ident /\ c2.ip = h.ip
     /\ (h.pc # "record" /\ h2.pc = "record") =>
          /\ h.pc \in {"lookup", "compare_wrong"}
          /\ h.prev.op = "check" /\ ~h.prev.dec.locked
     /\ (h.pc # "clear" /\ h2.pc = "clear") =>
          /\ h.pc = "compare_right"
          /\ h.prev.op = "check" /\ ~h.prev.dec.locked
     /\ (h.pc # "sent_401" /\ h2.pc = "sent_401") =>
          /\ h.pc = "record" /\ ret.out.op = "record" /\ c.pc = "idle"
     /\ (h.pc # "log" /\ h2.pc = "log") =>
          /\ h.pc = "clear" /\ ret.out.op = "clear" /\ c.pc = "idle"
     /\ (h.pc # "sent_200" /\ h2.pc = "sent_200") => h.pc = "log"
     /\ (h.pc = "log" /\ proc' # proc) =>
          /\ h2.pc \in {"sent_200", "sent_500"} /\ c2 = c
     /\ (h.pc = "record" /\ ret.out.op = "record" /\ proc' # proc) =>
          /\ h2.pc \in {"sent_401", "sent_500"} /\ c2 = c
     /\ (h.pc = "clear" /\ ret.out.op = "clear" /\ proc' # proc) =>
          /\ h2.pc = "log" /\ c2 = c
     /\ (h.pc = "record" /\ h2.pc # "record") => h2.pc \in {"sent_401", "sent_500"}
     /\ (h.pc = "clear" /\ h2.pc # "clear") => h2.pc = "log"
    ]_vars

\* loginStaff has answered 401 to a request that passed the lockout check: its
\* recordFailedAttempt call is the one counted failure of the key.
C34_Witness ==
  /\ proc[Handler].pc = "sent_401"
  /\ proc[Handler].ctx = "staff"
  /\ ~proc[Handler].prev.dec.locked
  /\ calls[TheRow] = 1
  /\ db[TheRow].count = 1
  /\ recent[TheKey].at = now

\* C35: a step of checkAccountLockout, recordFailedAttempt or clearFailedAttempts
\* called for (identifier, ip) changes neither the cache entry, nor the dedup
\* marker, nor the row of any other (identifier, ip) pair; a step that changes
\* the rows of two pairs at once is the sweep of cleanupExpiredAttempts.
C35_OtherKeysUntouched ==
  [][/\ \A p \in Procs :
          LET who == IF proc[p].pc = "idle" THEN proc'[p] ELSE proc[p] IN
          (proc'[p] # proc[p]) =>
            \A c \in Callers \ {<<who.ident, who.ip>>} :
              /\ cache'[getAttemptKey(c[1], c[2])] = cache[getAttemptKey(c[1], c[2])]
              /\ recent'[getAttemptKey(c[1], c[2])] = recent[getAttemptKey(c[1], c[2])]
              /\ db'[RowKey(c[1], c[2])] = db[RowKey(c[1], c[2])]
     /\ (Cardinality({r \in RowKeys : db'[r] # db[r]}) > 1) => sweep'.pend < sweep.pend
     /\ (proc' = proc /\ sweep'.pend >= sweep.pend) => db' = db
    ]_vars

\* ------------------------------------------------------------ specifications
\* One caller at a time, durable tier available: calls never overlap.
SeqTicks == {1000, 3000, FIRST_LOCKOUT_DURATION - 1000, FIRST_LOCKOUT_DURATION}

NextSeq ==
  \/ \E i \in Identifiers, a \in Ips : StartCheck(1, i, a)
  \/ \E i \in Identifiers, a \in Ips, f \in {"none", "check"} : StartRecord(1, i, a, f)
  \/ \E i \in Identifiers, a \in Ips, f \in {"none", "check"} : StartClear(1, i, a, f)
  \/ Step(1)
  \/ \E d \in SeqTicks : Tick(d, MaxSeqTicks)

SpecSeq == Init /\ [][NextSeq]_vars

\* One caller at a time, and the durable tier may fail and recover at any moment.
FlakyTicks == {3000}

NextFlaky ==
  \/ \E i \in Identifiers, a \in Ips : StartCheck(1, i, a)
  \/ \E i \in Identifiers, a \in Ips, f \in {"none", "check"} : StartRecord(1, i, a, f)
  \/ \E i \in Identifiers, a \in Ips, f \in {"none", "check"} : StartClear(1, i, a, f)
  \/ Step(1)
  \/ RecCatch(1)
  \/ \E d \in FlakyTicks : Tick(d, MaxTicks)
  \/ DbGoesDown
  \/ DbComesUp

SpecFlaky == Init /\ [][NextFlaky]_vars

RaceTicks == {3000, FIRST_LOCKOUT_DURATION}

\* Two callers making recordFailedAttempt calls that may overlap, durable tier
\* available.
RecProcs == {1, 2}

NextRec ==
  \/ \E p \in RecProcs, i \in Identifiers, a \in Ips : StartRecord(p, i, a, "none")
  \/ \E p \in RecProcs : \/ ChkSelect(p)
                      \/ ChkResume(p)
                      \/ ClrDelete(p)
                      \/ ClrResume(p)
                      \/ RecUpsert(p)
                      \/ RecSelect(p)
                      \/ RecResume(p)
  \/ \E d \in RaceTicks : Tick(d, MaxTicks)

SpecRec == Init /\ [][NextRec]_vars

\* One burst of recordFailedAttempt calls on a key without a record, durable tier
\* available: task p begins its call while the calls of tasks 1..p-1 are all
\* still running, and outside their dedup windows; the clock advances at most
\* once per call begun, by one dedup window. The burst is over within seconds, so
\* no lockout runs out during it and the expiry cleanup has no step here.
BurstTicks == {DEDUP_MS}

BurstOpen(p, i, a) ==
  /\ calls[RowKey(i, a)] = p - 1
  /\ \A q \in Procs : q < p => proc[q].op = "record"
  /\ ~Suppressed(RecentCacheGet(recent[getAttemptKey(i, a)], now), now)

NextBurst ==
  \/ \E p \in Procs, i \in Identifiers, a \in Ips :
        BurstOpen(p, i, a) /\ StartRecord(p, i, a, "none")
  \/ \E p \in Procs : \/ ChkSelect(p)
                      \/ ChkResume(p)
                      \/ RecUpsert(p)
                      \/ RecSelect(p)
                      \/ RecResume(p)
  \/ \E d \in BurstTicks, i \in Identifiers, a \in Ips :
        ticks < calls[RowKey(i, a)] /\ Tick(d, MaxTicks)

SpecBurst == Init /\ [][NextBurst]_vars

\* One caller whose calls are minutes apart, and the durable tier may fail and
\* recover at any moment.
SlowTicks == {8 * 60 * 1000}

NextSlow ==
  \/ \E i \in Identifiers, a \in Ips : StartCheck(1, i, a)
  \/ \E i \in Identifiers, a \in Ips : StartRecord(1, i, a, "none")
  \/ Step(1)
  \/ RecCatch(1)
  \/ \E d \in SlowTicks : Tick(d, MaxSlowTicks)
  \/ DbGoesDown
  \/ DbComesUp

SpecSlow == Init /\ [][NextSlow]_vars

\* The process has restarted: the caches are empty and the table holds what
\* earlier runs left, a row of any count whose last failure is `age` old.  One
\* caller asks for the lockout status while time passes.
RestartAges == {0, FIRST_LOCKOUT_DURATION}

InitRestart ==
  /\ now = Epoch
  /\ ticks = 0
  /\ db \in [RowKeys -> {NoRow} \cup
                        {[count |-> c, created |-> SqlNow(Epoch - age) - 60 * 1000,
                          last |-> SqlNow(Epoch - age)] :
                           c \in 1..MaxProbe, age \in RestartAges}]
  /\ \A r \in RowKeys \ {RowKey(i, a) : i \in Identifiers, a \in Ips} : db[r] = NoRow
  /\ dbUp = TRUE
  /\ cache = [k \in CacheKeys |-> NoEntry]
  /\ recent = [k \in CacheKeys |-> NoMark]
  /\ proc = [p \in Procs |-> IdleProc]
  /\ ret = NoRet
  /\ calls = [k \in RowKeys |-> 0]
  /\ incAt = [k \in RowKeys |-> NULL]
  /\ sweep = NoSweep
  /\ rest = 0

RestartTicks == {FIRST_LOCKOUT_DURATION, FINAL_LOCKOUT_DURATION - FIRST_LOCKOUT_DURATION}

NextRestart ==
  \/ \E i \in Identifiers, a \in Ips : StartCheck(1, i, a)
  \/ ChkSelect(1)
  \/ ChkResume(1)
  \/ ClrDelete(1)
  \/ ClrResume(1)
  \/ ReaperDelete
  \/ ReaperResume
  \/ \E d \in RestartTicks : TickTimer(d, MaxTicks)
  \/ TickRest

SpecRestart == InitRestart /\ [][NextRestart]_vars

\* One caller and the hourly timer; every durable-tier statement fails, from the
\* start and for good (unreachable database, or table never provisioned), so the
\* read-back of recordFailedAttempt is never reached.
InitDown == InitWith(FALSE)

DownTicks == {DEDUP_MS}

NextDown ==
  \/ \E i \in Identifiers, a \in Ips : StartCheck(1, i, a)
  \/ \E i \in Identifiers, a \in Ips : StartRecord(1, i, a, "none")
  \/ \E i \in Identifiers, a \in Ips : StartClear(1, i, a, "none")
  \/ ChkSelect(1)
  \/ ChkResume(1)
  \/ ClrDelete(1)
  \/ ClrResume(1)
  \/ RecUpsert(1)
  \/ RecCatch(1)
  \/ Reaper
  \/ ReaperDelete
  \/ ReaperResume
  \/ \E d \in DownTicks : Tick(d, MaxDownTicks)

SpecDown == InitDown /\ [][NextDown]_vars

\* One caller at a time, durable tier available, the identifier spelled in either
\* letter case.
CaseTicks == {DEDUP_MS}
NextCase ==
  \/ \E i \in Spellings, a \in Ips : StartCheck(1, i, a)
  \/ \E i \in Spellings, a \in Ips : StartRecord(1, i, a, "none")
  \/ \E i \in Spellings, a \in Ips : StartClear(1, i, a, "none")
  \/ Step(1)
  \/ \E d \in CaseTicks : Tick(d, MaxTicks)

SpecCase == Init /\ [][NextCase]_vars

\* Login requests, one at a time, durable tier available; time passes between
\* requests and while a statement is awaited.
LoginTicks == {DEDUP_MS, FIRST_LOCKOUT_DURATION}
NextLogin ==
  \/ \E who \in Handlers, i \in Identifiers, a \in Ips : LoginBegin(who, i, a)
  \/ LoginCallsCheck
  \/ LoginChecked
  \/ \E found \in {"absent", "unverified", "inactive", "plaintext", "wrong", "right"} :
       LoginLookup(found)
  \/ LoginCompare
  \/ LoginCallsRecord
  \/ LoginRecorded
  \/ LoginCallsClear
  \/ LoginCleared
  \/ \E token \in Tokens : LoginLogged(token)
  \/ LoginEnd
  \/ Step(Callee)
  \/ \E d \in LoginTicks :
       /\ \/ proc[Handler].pc \in {"idle", "lookup", "compare_right", "compare_wrong", "log"}
          \/ proc[Callee].pc # "idle"
       /\ Tick(d, MaxTicks)

SpecLogin == Init /\ [][NextLogin]_vars

\* One caller at a time, durable tier available, the hourly sweep at any moment;
\* time passes in steps up to beyond the longest lockout.
SweepTicks == {DEDUP_MS, FIRST_LOCKOUT_DURATION, FINAL_LOCKOUT_DURATION + 1000}
NextSweep ==
  \/ \E i \in Identifiers, a \in Ips : StartCheck(1, i, a)
  \/ \E i \in Identifiers, a \in Ips : StartRecord(1, i, a, "none")
  \/ \E i \in Identifiers, a \in Ips : StartClear(1, i, a, "none")
  \/ Step(1)
  \/ Reaper
  \/ ReaperDelete
  \/ ReaperResume
  \/ \E d \in SweepTicks : TickTimer(d, MaxSeqTicks)
  \/ TickRest

SpecSweep == Init /\ [][NextSweep]_vars

\* One caller at a time, one called sweep at a time at any moment and the sweeps
\* of the hourly timer, the durable tier failing and recovering; time passes in
\* steps of the first lockout and of a little more than the longest.
ReapTicks == {FIRST_LOCKOUT_DURATION, FINAL_LOCKOUT_DURATION + 1000}
NextReap ==
  \/ \E i \in Identifiers, a \in Ips : StartCheck(1, i, a)
  \/ \E i \in Identifiers, a \in Ips : StartRecord(1, i, a, "none")
  \/ Step(1)
  \/ RecCatch(1)
  \/ (InFlight(sweep) = 0 /\ Reaper)
  \/ ReaperDelete
  \/ ReaperResume
  \/ DbGoesDown
  \/ DbComesUp
  \/ \E d \in ReapTicks : TickTimer(d, MaxTicks)
  \/ TickRest

SpecReap == Init /\ [][NextReap]_vars

\* One caller at a time; the durable tier answers, throws, or leaves a statement
\* pending: pool.execute is awaited without a timeout (lines 90, 100, 181, 205),
\* so only the continuations of the calls are sure to run, once the statement
\* they await has completed.
HangTicks == {DEDUP_MS}
NextHang ==
  \/ \E i \in Identifiers, a \in Ips : StartCheck(1, i, a)
  \/ \E i \in Identifiers, a \in Ips : StartRecord(1, i, a, "none")
  \/ \E i \in Identifiers, a \in Ips : StartClear(1, i, a, "none")
  \/ Step(1)
  \/ RecCatch(1)
  \/ DbGoesDown
  \/ DbComesUp
  \/ \E d \in HangTicks : Tick(d, MaxTicks)

SpecHang ==
  /\ Init
  /\ [][NextHang]_vars
  /\ WF_vars(ChkResume(1))
  /\ WF_vars(ClrResume(1))
  /\ WF_vars(RecResume(1))
  /\ WF_vars(RecCatch(1))

\* One caller at a time on three keys, durable tier available, the hourly sweep
\* at any moment; time passes in steps of the dedup window and of a little more
\* than the longest lockout.
KeysTicks == {DEDUP_MS, FINAL_LOCKOUT_DURATION + 1000}
NextKeys ==
  \/ \E c \in Callers : StartCheck(1, c[1], c[2])
  \/ \E c \in Callers : StartRecord(1, c[1], c[2], "none")
  \/ \E c \in Callers : StartClear(1, c[1], c[2], "none")
  \/ Step(1)
  \/ Reaper
  \/ ReaperDelete
  \/ ReaperResume
  \/ \E d \in KeysTicks : Tick(d, MaxKeysTicks)

SpecKeys == Init /\ [][NextKeys]_vars

\* One caller at a time, durable tier available; time passes in steps of the
\* dedup window and of one millisecond less than the first lockout, so that a
\* call can resume one millisecond before a lockout ends.
CrossTicks == {DEDUP_MS, FIRST_LOCKOUT_DURATION - 1}
NextCross ==
  \/ \E i \in Identifiers, a \in Ips : StartCheck(1, i, a)
  \/ \E i \in Identifiers, a \in Ips, f \in {"none", "check"} : StartRecord(1, i, a, f)
  \/ \E i \in Identifiers, a \in Ips, f \in {"none", "check"} : StartClear(1, i, a, f)
  \/ Step(1)
  \/ \E d \in CrossTicks : Tick(d, MaxCrossTicks)

SpecCross == Init /\ [][NextCross]_vars

====
